---------------------------- MODULE Spec2Model ----------------------------
(***************************************************************************)
(* Model of the stat collector of workflow-telemetry-action:               *)
(*   src/src/statCollector.ts  (window = the job step named 'Run test')    *)
(*   src/unnamed/part_000      (window = the traced 'hyperfine' command)   *)
(* The two files are the same pipeline with a different window source; the *)
(* variable `variant` says which of them a behaviour follows.              *)
(*                                                                         *)
(* JavaScript numbers: the samples carry integers; a sum is an integer; a  *)
(* running maximum is an integer or NaN (Math.max with an undefined        *)
(* argument); a quotient is formatted at once by toFixed(2) and is kept as *)
(* hundredths ("cents"), or as the text NaN / Infinity.                    *)
(* An absent field of a sample is a key missing from its record.           *)
(***************************************************************************)
EXTENDS Integers, Sequences, FiniteSets, TLC

\* Longest sample stream a stat server endpoint returns in the model.
MaxLen == 2

---------------------------------------------------------------------------
(* JavaScript arithmetic and formatting                                    *)

NaN == [nan |-> TRUE, v |-> 0]
Num(n) == [nan |-> FALSE, v |-> n]

\* element.f && element.f > 0 ? element.f : 0
CoerceWrong(element, f) == IF f \in DOMAIN element THEN element[f] ELSE 0
Coerce(element, f) ==
  IF f \in DOMAIN element /\ element[f] > 0 THEN element[f] ELSE 0

\* Math.max(a, element.f): NaN when an argument is NaN or undefined.
MathMax(a, element, f) ==
  IF a.nan \/ f \notin DOMAIN element THEN NaN
  ELSE Num(IF element[f] > a.v THEN element[f] ELSE a.v)

\* a += b, where b may be NaN
Plus(a, b) == IF a.nan \/ b.nan THEN NaN ELSE Num(a.v + b.v)

\* (a / b).toFixed(2) for a, b >= 0 or NaN: the text of the quotient.
\* 0/0 is NaN, x/0 is Infinity; otherwise the quotient rounded to hundredths.
Fixed(k, c) == [kind |-> k, cents |-> c]
NoText == Fixed("none", 0)
DivToFixed(a, b) ==
  IF a.nan \/ b.nan THEN Fixed("NaN", 0)
  ELSE IF b.v = 0 THEN (IF a.v = 0 THEN Fixed("NaN", 0) ELSE Fixed("Infinity", 0))
  ELSE Fixed("num", (200 * a.v + b.v) \div (2 * b.v))

\* a.toFixed(2)
ToFixed(a) == DivToFixed(a, Num(1))

\* The cells of a table row: a label, `${a}%`, `${a}M`, `${a}M(${b}%)`, '-'.
LabelCell(s) == [label |-> s, unit |-> "", a |-> NoText, b |-> NoText]
PctCell(a) == [label |-> "", unit |-> "%", a |-> a, b |-> NoText]
MbCell(a) == [label |-> "", unit |-> "M", a |-> a, b |-> NoText]
MbPctCell(a, b) == [label |-> "", unit |-> "M(%)", a |-> a, b |-> b]
DashCell == LabelCell("-")

\* string[][] in statCollector.ts (one array per row); string[] in part_000
\* (the cells of all rows pushed into one flat array).
TableContent(variant, rows) ==
  IF variant = "step" THEN rows
  ELSE IF Len(rows) = 2 THEN rows[1] \o rows[2] ELSE rows[1]

---------------------------------------------------------------------------
(* The four aggregators: the forEach loop over response.data               *)

\* if (element.time < startTime || element.time > endTime) return true
DroppedExclusive(element, startTime, endTime) ==
  element.time <= startTime \/ element.time >= endTime
Dropped(element, startTime, endTime) ==
  element.time < startTime \/ element.time > endTime

Point(element, y) == [x |-> element.time, y |-> y]

RECURSIVE CPULoop(_, _, _, _)
CPULoop(data, startTime, endTime, acc) ==
  IF data = <<>> THEN acc
  ELSE LET element == Head(data)
           userLoad == Coerce(element, "userLoad")
           systemLoad == Coerce(element, "systemLoad")
       IN  CPULoop(Tail(data), startTime, endTime,
             IF Dropped(element, startTime, endTime) THEN acc
             ELSE [userLoadX |-> Append(acc.userLoadX, Point(element, userLoad)),
                   systemLoadX |-> Append(acc.systemLoadX, Point(element, systemLoad)),
                   maxUserValue |-> MathMax(acc.maxUserValue, element, "userLoad"),
                   sumUserValue |-> acc.sumUserValue + userLoad,
                   maxSystemValue |-> MathMax(acc.maxSystemValue, element, "systemLoad"),
                   sumSystemValue |-> acc.sumSystemValue + systemLoad,
                   times |-> acc.times + 1])

\* getCPUStats with the averages taken over the whole fetched stream.
getCPUStatsAvgOverStream(variant, data, startTime, endTime) ==
  LET r == CPULoop(data, startTime, endTime,
             [userLoadX |-> <<>>, systemLoadX |-> <<>>,
              maxUserValue |-> Num(0), sumUserValue |-> 0,
              maxSystemValue |-> Num(0), sumSystemValue |-> 0, times |-> 0])
  IN  [seriesA |-> r.userLoadX, seriesB |-> r.systemLoadX,
       tableContent |-> TableContent(variant,
         << <<LabelCell("CPU(user)"), PctCell(ToFixed(r.maxUserValue)),
              PctCell(DivToFixed(Num(r.sumUserValue), Num(Len(data))))>>,
            <<LabelCell("CPU(sys)"), PctCell(ToFixed(r.maxSystemValue)),
              PctCell(DivToFixed(Num(r.sumSystemValue), Num(Len(data))))>> >>)]

getCPUStats(variant, data, startTime, endTime) ==
  LET r == CPULoop(data, startTime, endTime,
             [userLoadX |-> <<>>, systemLoadX |-> <<>>,
              maxUserValue |-> Num(0), sumUserValue |-> 0,
              maxSystemValue |-> Num(0), sumSystemValue |-> 0, times |-> 0])
  IN  [seriesA |-> r.userLoadX, seriesB |-> r.systemLoadX,
       tableContent |-> TableContent(variant,
         << <<LabelCell("CPU(user)"), PctCell(ToFixed(r.maxUserValue)),
              PctCell(DivToFixed(Num(r.sumUserValue), Num(r.times)))>>,
            <<LabelCell("CPU(sys)"), PctCell(ToFixed(r.maxSystemValue)),
              PctCell(DivToFixed(Num(r.sumSystemValue), Num(r.times)))>> >>)]

RECURSIVE MemoryLoop(_, _, _, _)
MemoryLoop(data, startTime, endTime, acc) ==
  IF data = <<>> THEN acc
  ELSE LET element == Head(data)
           activeMemoryMb == Coerce(element, "activeMemoryMb")
           totalMemoryMb == MathMax(acc.totalMemoryMb, element, "totalMemoryMb")
       IN  MemoryLoop(Tail(data), startTime, endTime,
             IF Dropped(element, startTime, endTime) THEN acc
             ELSE [activeMemoryX |-> Append(acc.activeMemoryX, Point(element, activeMemoryMb)),
                   maxUsedValue |-> IF activeMemoryMb > acc.maxUsedValue
                                    THEN activeMemoryMb ELSE acc.maxUsedValue,
                   sumUsedValue |-> acc.sumUsedValue + activeMemoryMb,
                   totalMemoryMb |-> totalMemoryMb,
                   sumTotalMemoryMb |-> Plus(acc.sumTotalMemoryMb, totalMemoryMb),
                   times |-> acc.times + 1])

\* getMemoryStats with the usage ratios turned into percentages.
getMemoryStatsTimes100(variant, data, startTime, endTime) ==
  LET r == MemoryLoop(data, startTime, endTime,
             [activeMemoryX |-> <<>>, maxUsedValue |-> 0, sumUsedValue |-> 0,
              totalMemoryMb |-> Num(0), sumTotalMemoryMb |-> Num(0), times |-> 0])
  IN  [seriesA |-> r.activeMemoryX, seriesB |-> <<>>,
       tableContent |-> TableContent(variant,
         << <<LabelCell("Memory"),
              MbPctCell(ToFixed(Num(r.maxUsedValue)),
                        DivToFixed(Num(100 * r.maxUsedValue), r.totalMemoryMb)),
              MbPctCell(DivToFixed(Num(r.sumUsedValue), Num(r.times)),
                        DivToFixed(Num(100 * r.sumUsedValue), r.sumTotalMemoryMb))>> >>)]

getMemoryStats(variant, data, startTime, endTime) ==
  LET r == MemoryLoop(data, startTime, endTime,
             [activeMemoryX |-> <<>>, maxUsedValue |-> 0, sumUsedValue |-> 0,
              totalMemoryMb |-> Num(0), sumTotalMemoryMb |-> Num(0), times |-> 0])
  IN  [seriesA |-> r.activeMemoryX, seriesB |-> <<>>,
       tableContent |-> TableContent(variant,
         << <<LabelCell("Memory"),
              MbPctCell(ToFixed(Num(r.maxUsedValue)),
                        DivToFixed(Num(r.maxUsedValue), r.totalMemoryMb)),
              MbPctCell(DivToFixed(Num(r.sumUsedValue), Num(r.times)),
                        DivToFixed(Num(r.sumUsedValue), r.sumTotalMemoryMb))>> >>)]

RECURSIVE NetworkLoop(_, _, _, _)
NetworkLoop(data, startTime, endTime, acc) ==
  IF data = <<>> THEN acc
  ELSE LET element == Head(data)
           rxMb == Coerce(element, "rxMb")
           txMb == Coerce(element, "txMb")
       IN  NetworkLoop(Tail(data), startTime, endTime,
             IF Dropped(element, startTime, endTime) THEN acc
             ELSE [networkReadX |-> Append(acc.networkReadX, Point(element, rxMb)),
                   networkWriteX |-> Append(acc.networkWriteX, Point(element, txMb)),
                   maxReadValue |-> MathMax(acc.maxReadValue, element, "rxMb"),
                   maxWriteValue |-> MathMax(acc.maxWriteValue, element, "txMb"),
                   times |-> acc.times + 1])

\* getNetworkStats with the read series built newest first (unshift).
getNetworkStatsNewestFirst(variant, data, startTime, endTime) ==
  LET r == NetworkLoop(data, startTime, endTime,
             [networkReadX |-> <<>>, networkWriteX |-> <<>>,
              maxReadValue |-> Num(0), maxWriteValue |-> Num(0), times |-> 0])
  IN  [seriesA |-> [i \in 1..Len(r.networkReadX) |->
                     r.networkReadX[Len(r.networkReadX) + 1 - i]], seriesB |-> r.networkWriteX,
       tableContent |-> TableContent(variant,
         << <<LabelCell("Network I/O Read"), MbCell(ToFixed(r.maxReadValue)), DashCell>>,
            <<LabelCell("Network I/O Write"), MbCell(ToFixed(r.maxWriteValue)), DashCell>> >>)]

getNetworkStats(variant, data, startTime, endTime) ==
  LET r == NetworkLoop(data, startTime, endTime,
             [networkReadX |-> <<>>, networkWriteX |-> <<>>,
              maxReadValue |-> Num(0), maxWriteValue |-> Num(0), times |-> 0])
  IN  [seriesA |-> r.networkReadX, seriesB |-> r.networkWriteX,
       tableContent |-> TableContent(variant,
         << <<LabelCell("Network I/O Read"), MbCell(ToFixed(r.maxReadValue)), DashCell>>,
            <<LabelCell("Network I/O Write"), MbCell(ToFixed(r.maxWriteValue)), DashCell>> >>)]

RECURSIVE DiskLoop(_, _, _, _)
DiskLoop(data, startTime, endTime, acc) ==
  IF data = <<>> THEN acc
  ELSE LET element == Head(data)
           rxMb == Coerce(element, "rxMb")
           wxMb == Coerce(element, "wxMb")
       IN  DiskLoop(Tail(data), startTime, endTime,
             IF Dropped(element, startTime, endTime) THEN acc
             ELSE [diskReadX |-> Append(acc.diskReadX, Point(element, rxMb)),
                   diskWriteX |-> Append(acc.diskWriteX, Point(element, wxMb)),
                   maxReadValue |-> MathMax(acc.maxReadValue, element, "rxMb"),
                   maxWriteValue |-> MathMax(acc.maxWriteValue, element, "wxMb"),
                   times |-> acc.times + 1])

getDiskStats(variant, data, startTime, endTime) ==
  LET r == DiskLoop(data, startTime, endTime,
             [diskReadX |-> <<>>, diskWriteX |-> <<>>,
              maxReadValue |-> Num(0), maxWriteValue |-> Num(0), times |-> 0])
  IN  [seriesA |-> r.diskReadX, seriesB |-> r.diskWriteX,
       tableContent |-> TableContent(variant,
         << <<LabelCell("Disk I/O Read"), MbCell(ToFixed(r.maxReadValue)), DashCell>>,
            <<LabelCell("Disk I/O Write"), MbCell(ToFixed(r.maxWriteValue)), DashCell>> >>)]

Domains == {"cpu", "memory", "network", "disk"}

\* The aggregator of a domain, as reportWorkflowMetrics calls it.
getStats(domain, variant, data, startTime, endTime) ==
  CASE domain = "cpu" -> getCPUStats(variant, data, startTime, endTime)
    [] domain = "memory" -> getMemoryStats(variant, data, startTime, endTime)
    [] domain = "network" -> getNetworkStats(variant, data, startTime, endTime)
    [] domain = "disk" -> getDiskStats(variant, data, startTime, endTime)


---------------------------------------------------------------------------
(* Inputs: what the stat server, the job and the process trace may hold    *)

Times == {0, 1000, 2000}
\* The values of a sample's first and second field, when present.
Values == {-1, 0, 2}
Values2 == {-1, 2}

FieldsOf(domain) ==
  CASE domain = "cpu" -> <<"userLoad", "systemLoad">>
    [] domain = "memory" -> <<"activeMemoryMb", "totalMemoryMb">>
    [] domain = "network" -> <<"rxMb", "txMb">>
    [] domain = "disk" -> <<"rxMb", "wxMb">>

\* CPUStats, MemoryStats, NetworkStats, DiskStats: `time` is always there,
\* each of the other fields may be absent.
CPUSamples ==
  [time : Times, userLoad : Values, systemLoad : Values2]
    \cup [time : Times, userLoad : Values] \cup [time : Times, systemLoad : Values2]
    \cup [time : Times]
MemorySamples ==
  [time : Times, activeMemoryMb : Values, totalMemoryMb : Values2]
    \cup [time : Times, activeMemoryMb : Values] \cup [time : Times, totalMemoryMb : Values2]
    \cup [time : Times]
NetworkSamples ==
  [time : Times, rxMb : Values, txMb : Values2]
    \cup [time : Times, rxMb : Values] \cup [time : Times, txMb : Values2]
    \cup [time : Times]
DiskSamples ==
  [time : Times, rxMb : Values, wxMb : Values2]
    \cup [time : Times, rxMb : Values] \cup [time : Times, wxMb : Values2]
    \cup [time : Times]
Samples(domain) ==
  CASE domain = "cpu" -> CPUSamples
    [] domain = "memory" -> MemorySamples
    [] domain = "network" -> NetworkSamples
    [] domain = "disk" -> DiskSamples

\* The server appends a sample per tick: a stream is in time order.
RECURSIVE Streams(_, _)
Streams(S, n) ==
  IF n = 0 THEN {<<>>}
  ELSE LET shorter == Streams(S, n - 1)
       IN  shorter \cup
           UNION {{Append(s, x) : x \in {y \in S : n = 1 \/ y.time >= s[n - 1].time}} :
                    s \in {t \in shorter : Len(t) = n - 1}}

\* The streams the report pipeline is run on: well-formed samples only.
PipeSamples(domain) ==
  {s \in Samples(domain) :
     /\ s.time \in {0, 1000}
     /\ \A i \in 1..2 : FieldsOf(domain)[i] \in DOMAIN s /\ s[FieldsOf(domain)[i]] = 2}

\* An ISO-8601 timestamp: whole seconds and milliseconds.
TS(s, ms) == [s |-> s, ms |-> ms]
\* new Date(ts).getTime()
GetTime(ts) == ts.s * 1000 + ts.ms

VALID_JOB_NAME == "Run test"

Step(name, started, completed) ==
  [name |-> name, started_at |-> started, completed_at |-> completed]
\* A step that has not completed: completed_at is null.
Running(name, started) == [name |-> name, started_at |-> started]

\* currentJob: null, a job without steps, or a job with steps.
NullJob == [isNull |-> TRUE]
Job(steps) == [isNull |-> FALSE, steps |-> steps]
Jobs ==
  { NullJob,
    [isNull |-> FALSE],
    Job(<<>>),
    Job(<<Step("Set up job", TS(0, 0), TS(1, 0))>>),
    Job(<<Running(VALID_JOB_NAME, TS(1, 0))>>),
    Job(<<Step("Set up job", TS(0, 0), TS(1, 0)),
          Step(VALID_JOB_NAME, TS(1, 0), TS(2, 0))>>),
    Job(<<Running(VALID_JOB_NAME, TS(0, 0)),
          Step(VALID_JOB_NAME, TS(1, 0), TS(2, 400))>>),
    Job(<<Step(VALID_JOB_NAME, TS(0, 0), TS(0, 600))>>) }

\* What parse() of the process trace gives: it throws, or a list of commands.
Command(name, startTime, duration) ==
  [name |-> name, startTime |-> startTime, duration |-> duration]
Traces ==
  { [threw |-> TRUE],
    [threw |-> FALSE, commands |-> <<>>],
    [threw |-> FALSE, commands |-> <<Command("node", 0, 3000)>>],
    [threw |-> FALSE, commands |-> <<Command("node", 0, 3000),
                                     Command("hyperfine", 1000, 1000)>>],
    [threw |-> FALSE, commands |-> <<Command("hyperfine", 1000, 0)>>] }

---------------------------------------------------------------------------
(* The state of one report() call                                          *)

VARIABLES
  variant,    \* "step": statCollector.ts; "hyperfine": part_000
  source,     \* currentJob (step) or the outcome of parse() (hyperfine)
  pc,         \* the await the call is at: "report", a domain, a chart, "done"
  validJob,   \* the step / command found, once the window is resolved
  stats,      \* per domain: the series and table content its aggregator gave
  graphs,     \* per chart: "unset", "null", "undefined" or "ok"
  requests,   \* the HTTP requests issued so far, in order
  result,     \* what report() returned
  aggIn,      \* the input of a single aggregator run
  aggOut      \* its output

vars == <<variant, source, pc, validJob, stats, graphs, requests, result, aggIn, aggOut>>

NoStats == [seriesA |-> <<>>, seriesB |-> <<>>, tableContent |-> <<>>]
NoValidJob == [name |-> "(unresolved)"]

Charts == <<"cpuLoad", "memoryUsage", "networkIORead", "networkIOWrite",
            "diskIORead", "diskIOWrite">>
ChartSet == {Charts[i] : i \in 1..Len(Charts)}

Pending == [kind |-> "pending", items |-> <<>>]
Null == [kind |-> "null", items |-> <<>>]
\* postContentItems.join('\n'): the string, kept as its lines; '' is <<>>.
Str(items) == [kind |-> "string", items |-> items]

Get(domain) == [method |-> "GET", target |-> domain]
Put(chart) == [method |-> "PUT", target |-> chart]

\* job.steps?.find(step => step.name === VALID_JOB_NAME && step.started_at
\*                         && step.completed_at)
ValidStep(step) ==
  /\ step.name = VALID_JOB_NAME
  /\ "started_at" \in DOMAIN step
  /\ "completed_at" \in DOMAIN step
FindValidJob(job) ==
  IF "steps" \notin DOMAIN job THEN <<>> ELSE SelectSeq(job.steps, ValidStep)

\* completedCommands.find(command => command.name === 'hyperfine')
IsHyperfine(command) == command.name = "hyperfine"
getHyperfineCommand(trace) == SelectSeq(trace.commands, IsHyperfine)

\* startTime and endTime as each aggregator computes them.
StartTime(v, job) ==
  IF v = "step" THEN GetTime(job.started_at) ELSE job.startTime
EndTimeFromDuration(v, job) ==
  IF v = "step"
  THEN GetTime(job.started_at)
         + 1000 * ((GetTime(job.completed_at) - GetTime(job.started_at) + 500) \div 1000)
  ELSE job.startTime + job.duration
EndTime(v, job) ==
  IF v = "step" THEN GetTime(job.completed_at) ELSE job.startTime + job.duration

\* Math.round(x / 1000)
RoundDiv1000(x) == (x + 500) \div 1000
\* The duration reportWorkflowMetrics prints.
Duration(v, job) ==
  IF v = "step"
  THEN RoundDiv1000(GetTime(job.completed_at) - GetTime(job.started_at))
  ELSE job.duration
\* if (validJob.started_at && validJob.completed_at) / if (hyperfineCommand.duration)
DurationKnown(v, job) ==
  IF v = "step" THEN "started_at" \in DOMAIN job /\ "completed_at" \in DOMAIN job
  ELSE job.duration # 0

\* if (!validJob) { log; return '' } of reportWorkflowMetrics
EmptyReportNull == Null
EmptyReport == Str(<<>>)

\* The catch of report(): log, return null.
ReportCatchEmpty == Str(<<>>)
ReportCatch == Null

\* An exception raised by an awaited fetch leaves reportWorkflowMetrics at
\* once: nothing after the await runs.
AfterThrowGoesOn(next) == next
AfterThrowRetry(next) == pc
AfterThrow(next) == "done"

---------------------------------------------------------------------------
(* The chart requests                                                      *)

\* try { response = await axios.put(...) } catch { log }; return response?.data
getLineGraphThrows(outcome) == IF outcome = "ok" THEN "ok" ELSE "threw"
getLineGraph(outcome) == IF outcome = "ok" THEN "ok" ELSE "undefined"
getStackedAreaGraph(outcome) == IF outcome = "ok" THEN "ok" ELSE "undefined"

Stacked == {"cpuLoad", "memoryUsage"}
getGraph(chart, outcome) ==
  IF chart \in Stacked THEN getStackedAreaGraph(outcome) ELSE getLineGraph(outcome)

\* The condition of the ternary that guards each chart request.
SeriesPresent(chart, st) ==
  CASE chart = "cpuLoad" -> Len(st["cpu"].seriesA) # 0 /\ Len(st["cpu"].seriesB) # 0
    [] chart = "memoryUsage" -> Len(st["memory"].seriesA) # 0
    [] chart = "networkIORead" -> Len(st["network"].seriesA) # 0
    [] chart = "networkIOWrite" -> Len(st["network"].seriesB) # 0
    [] chart = "diskIORead" -> Len(st["disk"].seriesA) # 0
    [] chart = "diskIOWrite" -> Len(st["disk"].seriesB) # 0

---------------------------------------------------------------------------
(* The composition of the report: postContentItems                         *)

\* One item of postContentItems: its fixed text, the charts it shows, the
\* number it prints, the table it renders.
Item(text, imgs, num, table) == [text |-> text, imgs |-> imgs, num |-> num, table |-> table]
Text(t) == Item(t, <<>>, 0, <<>>)
Image(chart) == Item("![id](url)", <<chart>>, 0, <<>>)

CPU_HEADER == "### CPU Metrics"
MEMORY_HEADER == "### Memory Metrics"
IO_HEADER == "### IO Metrics"
NETWORK_ROW == "| Network I/O |"
DISK_ROW == "| Disk I/O |"
PERF_HEADER == "### Performance Statistics"
DURATION_LINE == "Executing duration: s"
TABLE == "markdownTable"

Truthy(g) == g = "ok"

\* tableContent.push(...cpuTableContent) in statCollector.ts,
\* tableContent.push(cpuTableContent) in part_000; nothing when it is empty.
PushTable(v, tableContent) ==
  IF Len(tableContent) = 0 THEN <<>>
  ELSE IF v = "step" THEN tableContent ELSE <<tableContent>>

TableHeader == <<LabelCell("Domain"), LabelCell("MaxValue"), LabelCell("AvgValue")>>

PerformanceStatistics(v, job, st) ==
  IF DurationKnown(v, job)
  THEN << Text(PERF_HEADER),
          Item(DURATION_LINE, <<>>, Duration(v, job), <<>>),
          Item(TABLE, <<>>, 0,
               <<TableHeader>> \o PushTable(v, st["cpu"].tableContent)
                 \o PushTable(v, st["memory"].tableContent)
                 \o PushTable(v, st["network"].tableContent)
                 \o PushTable(v, st["disk"].tableContent)) >>
  ELSE <<>>

IOHeaderShownAnd(g) ==
  (Truthy(g["networkIORead"]) /\ Truthy(g["networkIOWrite"]))
    /\ (Truthy(g["diskIORead"]) /\ Truthy(g["diskIOWrite"]))
IOHeaderShown(g) ==
  (Truthy(g["networkIORead"]) /\ Truthy(g["networkIOWrite"]))
    \/ (Truthy(g["diskIORead"]) /\ Truthy(g["diskIOWrite"]))

NetworkRowShown(g) == Truthy(g["networkIORead"]) /\ Truthy(g["networkIOWrite"])
DiskRowShown(g) == Truthy(g["diskIORead"]) /\ Truthy(g["diskIOWrite"])

CPUSectionShownWithMemory(g) == Truthy(g["cpuLoad"]) /\ Truthy(g["memoryUsage"])
CPUSectionShown(g) == Truthy(g["cpuLoad"])
MemorySectionShown(g) == Truthy(g["memoryUsage"])

CPUSection(g) ==
  IF CPUSectionShown(g) THEN <<Text(CPU_HEADER), Image("cpuLoad"), Text("")>> ELSE <<>>
MemorySection(g) ==
  IF MemorySectionShown(g)
  THEN <<Text(MEMORY_HEADER), Image("memoryUsage"), Text("")>> ELSE <<>>
IOSection(g) ==
  (IF IOHeaderShown(g)
   THEN <<Text(IO_HEADER), Text("| | Read | Write |"), Text("|--- |--- |--- |")>>
   ELSE <<>>)
  \o (IF NetworkRowShown(g)
      THEN <<Item(NETWORK_ROW, <<"networkIORead", "networkIOWrite">>, 0, <<>>)>>
      ELSE <<>>)
  \o (IF DiskRowShown(g)
      THEN <<Item(DISK_ROW, <<"diskIORead", "diskIOWrite">>, 0, <<>>)>>
      ELSE <<>>)

ComposeMemoryFirst(v, job, st, g) ==
  MemorySection(g) \o CPUSection(g) \o IOSection(g) \o PerformanceStatistics(v, job, st)
Compose(v, job, st, g) ==
  CPUSection(g) \o MemorySection(g) \o IOSection(g) \o PerformanceStatistics(v, job, st)

---------------------------------------------------------------------------
(* report(): one action per await                                          *)

Init ==
  /\ variant \in {"step", "hyperfine"}
  /\ source \in (IF variant = "step" THEN Jobs ELSE Traces)
  /\ pc = "report"
  /\ validJob = NoValidJob
  /\ stats = [d \in Domains |-> NoStats]
  /\ graphs = [c \in ChartSet |-> "unset"]
  /\ requests = <<>>
  /\ result = Pending
  /\ aggIn = [domain |-> "cpu", data |-> <<>>]
  /\ aggOut = NoStats

Return(r) ==
  /\ result' = r
  /\ pc' = "done"

\* report() and reportWorkflowMetrics() of statCollector.ts, to the first await.
ReportJob ==
  /\ pc = "report" /\ variant = "step"
  /\ IF source.isNull
     THEN Return(Null) /\ UNCHANGED validJob
     ELSE LET found == FindValidJob(source)
          IN  IF found = <<>>
              THEN Return(EmptyReport) /\ UNCHANGED validJob
              ELSE validJob' = Head(found) /\ pc' = "cpu" /\ UNCHANGED result
  /\ UNCHANGED <<variant, source, stats, graphs, requests, aggIn, aggOut>>

\* report() and reportWorkflowMetrics() of part_000, to the first fetch.
ReportHyperfine ==
  /\ pc = "report" /\ variant = "hyperfine"
  /\ IF source.threw
     THEN Return(ReportCatch) /\ UNCHANGED validJob
     ELSE LET found == getHyperfineCommand(source)
          IN  IF found = <<>>
              THEN Return(EmptyReport) /\ UNCHANGED validJob
              ELSE validJob' = Head(found) /\ pc' = "cpu" /\ UNCHANGED result
  /\ UNCHANGED <<variant, source, stats, graphs, requests, aggIn, aggOut>>

\* await getXStats(validJob): the GET, then the aggregation of its response.
Fetch(domain, next) ==
  /\ pc = domain
  /\ requests' = Append(requests, Get(domain))
  /\ \/ \* axios.get rejects, or response.data is no array of samples and
        \* the forEach throws
        /\ pc' = AfterThrow(next)
        /\ result' = (IF pc' = "done" THEN ReportCatch ELSE result)
        /\ UNCHANGED stats
     \/ \E data \in Streams(PipeSamples(domain), MaxLen) :
          /\ stats' = [stats EXCEPT ![domain] =
                         getStats(domain, variant, data, StartTime(variant, validJob),
                                  EndTime(variant, validJob))]
          /\ pc' = next
          /\ UNCHANGED result
  /\ UNCHANGED <<variant, source, validJob, graphs, aggIn, aggOut>>

FetchCPU == Fetch("cpu", "memory")
FetchMemory == Fetch("memory", "network")
FetchNetwork == Fetch("network", "disk")
FetchDisk == Fetch("disk", "cpuLoad")

\* const x = series.length ? await getGraph(...) : null; after the last one
\* the report is composed and returned.
Graph(chart, next) ==
  /\ pc = chart
  /\ IF SeriesPresent(chart, stats)
     THEN /\ requests' = Append(requests, Put(chart))
          /\ \E outcome \in {"ok", "error"} :
               graphs' = [graphs EXCEPT ![chart] = getGraph(chart, outcome)]
     ELSE /\ graphs' = [graphs EXCEPT ![chart] = "null"]
          /\ UNCHANGED requests
  /\ IF graphs'[chart] = "threw" THEN Return(ReportCatch)
     ELSE IF next = "done"
          THEN Return(Str(Compose(variant, validJob, stats, graphs')))
          ELSE pc' = next /\ UNCHANGED result
  /\ UNCHANGED <<variant, source, validJob, stats, aggIn, aggOut>>

GraphCPU == Graph("cpuLoad", "memoryUsage")
GraphMemory == Graph("memoryUsage", "networkIORead")
GraphNetworkRead == Graph("networkIORead", "networkIOWrite")
GraphNetworkWrite == Graph("networkIOWrite", "diskIORead")
GraphDiskRead == Graph("diskIORead", "diskIOWrite")
GraphDiskWrite == Graph("diskIOWrite", "done")

Next ==
  \/ ReportJob
  \/ ReportHyperfine
  \/ FetchCPU
  \/ FetchMemory
  \/ FetchNetwork
  \/ FetchDisk
  \/ GraphCPU
  \/ GraphMemory
  \/ GraphNetworkRead
  \/ GraphNetworkWrite
  \/ GraphDiskRead
  \/ GraphDiskWrite

Spec == Init /\ [][Next]_vars

---------------------------------------------------------------------------
(* One aggregator run on an arbitrary stream: the aggregators as functions *)

\* The windows an aggregator is run on: [1000, 2000], [0, 2000], [1000, 1000].
AggJobs ==
  { <<"step", Step(VALID_JOB_NAME, TS(1, 0), TS(2, 0))>>,
    <<"step", Step(VALID_JOB_NAME, TS(0, 0), TS(2, 0))>>,
    <<"hyperfine", Command("hyperfine", 1000, 0)>> }

\* Streams the server may already hold when the run starts: three CPU
\* samples with loads 10/5, 20/10, 30/5 and three memory samples with 100,
\* 200, 300 MB active of 1000 MB, at 0, 1000 and 2000 ms.
CPUScenario ==
  [domain |-> "cpu",
   data |-> << [time |-> 0, userLoad |-> 10, systemLoad |-> 5],
               [time |-> 1000, userLoad |-> 20, systemLoad |-> 10],
               [time |-> 2000, userLoad |-> 30, systemLoad |-> 5] >>]
MemoryScenario ==
  [domain |-> "memory",
   data |-> << [time |-> 0, activeMemoryMb |-> 100, totalMemoryMb |-> 1000],
               [time |-> 1000, activeMemoryMb |-> 200, totalMemoryMb |-> 1000],
               [time |-> 2000, activeMemoryMb |-> 300, totalMemoryMb |-> 1000] >>]
Scenarios == {CPUScenario, MemoryScenario}

AggInit ==
  /\ \E j \in AggJobs : variant = j[1] /\ validJob = j[2]
  /\ source = NullJob
  /\ pc = "aggregate"
  /\ stats = [d \in Domains |-> NoStats]
  /\ graphs = [c \in ChartSet |-> "unset"]
  /\ requests = <<>>
  /\ result = Pending
  /\ aggIn \in {[domain |-> d, data |-> <<>>] : d \in Domains} \cup Scenarios
  /\ aggOut = NoStats

\* The stat server records one more sample, no older than its last one.
Collect ==
  /\ pc = "aggregate"
  /\ Len(aggIn.data) < MaxLen
  /\ \E sample \in Samples(aggIn.domain) :
       /\ aggIn.data # <<>> => sample.time >= aggIn.data[Len(aggIn.data)].time
       /\ aggIn' = [aggIn EXCEPT !.data = Append(@, sample)]
  /\ UNCHANGED <<variant, source, pc, validJob, stats, graphs, requests, result, aggOut>>

\* await getXStats(validJob): every call declares its series, its table
\* content and its accumulators anew; nothing outlives the call.
RunAggregatorSharedSeries(domain, data) ==
  LET r == getStats(domain, variant, data,
                    StartTime(variant, validJob), EndTime(variant, validJob))
  IN  [seriesA |-> aggOut.seriesA \o r.seriesA,
       seriesB |-> aggOut.seriesB \o r.seriesB,
       tableContent |-> r.tableContent]
RunAggregator(domain, data) ==
  getStats(domain, variant, data,
           StartTime(variant, validJob), EndTime(variant, validJob))

\* The aggregator of the domain is run on what the server has recorded.
Aggregate ==
  /\ pc = "aggregate"
  /\ aggOut' = RunAggregator(aggIn.domain, aggIn.data)
  /\ pc' = "aggregated"
  /\ UNCHANGED <<variant, source, validJob, stats, graphs, requests, result, aggIn>>

AggNext == Collect \/ Aggregate

SpecAgg == AggInit /\ [][AggNext]_vars

\* Two runs of one aggregator with a run of the next domain's aggregator
\* between them (reportWorkflowMetrics calls the aggregators in turn).
NextDomain(domain) ==
  CASE domain = "cpu" -> "memory"
    [] domain = "memory" -> "network"
    [] domain = "network" -> "disk"
    [] domain = "disk" -> "cpu"
\* What the other endpoint answers: a sample at 0 ms and one at 1000 ms.
OtherStream(domain) ==
  CHOOSE s \in Streams(PipeSamples(domain), 2) : Len(s) = 2 /\ s[1].time < s[2].time

AggregateOther ==
  /\ pc = "aggregated"
  /\ LET other == NextDomain(aggIn.domain)
     IN  stats' = [stats EXCEPT ![other] = RunAggregator(other, OtherStream(other))]
  /\ pc' = "other"
  /\ UNCHANGED <<variant, source, validJob, graphs, requests, result, aggIn, aggOut>>

\* The second run, on the same stream and window; its output is kept
\* beside the first one's.
AggregateAgain ==
  /\ pc = "other"
  /\ stats' = [stats EXCEPT ![aggIn.domain] = RunAggregator(aggIn.domain, aggIn.data)]
  /\ pc' = "again"
  /\ UNCHANGED <<variant, source, validJob, graphs, requests, result, aggIn, aggOut>>

TwiceNext == Collect \/ Aggregate \/ AggregateOther \/ AggregateAgain

SpecTwice == AggInit /\ [][TwiceNext]_vars

---------------------------------------------------------------------------
(* Properties                                                              *)

\* The window of the run, and membership in it, as the claims state them.
WindowStart == StartTime(variant, validJob)
WindowEnd == EndTime(variant, validJob)
InWindow(sample) == WindowStart <= sample.time /\ sample.time <= WindowEnd
InWindowData == SelectSeq(aggIn.data, InWindow)
TimesOf(series) == [i \in 1..Len(series) |-> series[i].x]
SampleTimes(samples) == [i \in 1..Len(samples) |-> samples[i].time]
TwoSeries == aggIn.domain # "memory"

\* C1: in every aggregator a fetched sample contributes a series point iff
\* startTime <= sample.time <= endTime: the points of each series are, in
\* order, exactly the samples of the closed window.
C1_InclusiveFilter ==
  pc = "aggregated" =>
    /\ TimesOf(aggOut.seriesA) = SampleTimes(InWindowData)
    /\ TwoSeries => TimesOf(aggOut.seriesB) = SampleTimes(InWindowData)

\* C1 witness: of two samples the one before the window is dropped and the
\* one at startTime = endTime is kept.
C1_Witness ==
  /\ pc = "aggregated"
  /\ WindowStart = WindowEnd
  /\ Len(aggIn.data) = 2
  /\ aggIn.data[1].time < WindowStart
  /\ aggIn.data[2].time = WindowEnd
  /\ TimesOf(aggOut.seriesA) = <<WindowStart>>

\* The value the claims expect a raw field to be plotted as.
Floored(sample, f) ==
  IF f \notin DOMAIN sample THEN 0 ELSE IF sample[f] <= 0 THEN 0 ELSE sample[f]
PlottedAs(series, f) ==
  /\ Len(series) = Len(InWindowData)
  /\ \A i \in 1..Len(series) :
       series[i].y >= 0 /\ series[i].y = Floored(InWindowData[i], f)

\* C2: every emitted point has y >= 0; y is 0 when the raw plotted field is
\* negative, zero or absent, and the raw value otherwise.
C2_NonNegativePoints ==
  pc = "aggregated" =>
    /\ PlottedAs(aggOut.seriesA, FieldsOf(aggIn.domain)[1])
    /\ TwoSeries => PlottedAs(aggOut.seriesB, FieldsOf(aggIn.domain)[2])

\* C2 witness: a kept sample whose first field is negative and whose second
\* is absent, next to a kept sample with positive fields.
C2_Witness ==
  /\ pc = "aggregated"
  /\ TwoSeries
  /\ Len(aggOut.seriesA) = 2
  /\ LET f == FieldsOf(aggIn.domain)
         a == InWindowData[1]
         b == InWindowData[2]
     IN  /\ f[1] \in DOMAIN a /\ a[f[1]] < 0 /\ f[2] \notin DOMAIN a
         /\ f[1] \in DOMAIN b /\ b[f[1]] > 0
         /\ aggOut.seriesA[1].y = 0 /\ aggOut.seriesB[1].y = 0
         /\ aggOut.seriesA[2].y = b[f[1]]


---------------------------------------------------------------------------
(* Properties of a whole report() call                                     *)

Done == pc = "done"
Issued(request) == \E i \in 1..Len(requests) : requests[i] = request
\* A fetch that was issued and gave no stats failed.
FetchFailed(domain) == Issued(Get(domain)) /\ stats[domain] = NoStats
FetchSucceeded(domain) == stats[domain] # NoStats
AllFetched == \A d \in Domains : FetchSucceeded(d)
ChartOk(chart) == graphs[chart] = "ok"
ChartFailed(chart) == graphs[chart] = "undefined"

IsReport == result.kind = "string"
Has(text) == IsReport /\ \E i \in 1..Len(result.items) : result.items[i].text = text
\* The rows of the Performance Statistics table, and their cells.
TableRows ==
  IF Has(TABLE)
  THEN (CHOOSE item \in {result.items[i] : i \in 1..Len(result.items)} :
          item.text = TABLE).table
  ELSE <<>>
TableCells == UNION {{TableRows[i][j] : j \in 1..Len(TableRows[i])} : i \in 1..Len(TableRows)}
LabelsOf(domain) ==
  CASE domain = "cpu" -> {"CPU(user)", "CPU(sys)"}
    [] domain = "memory" -> {"Memory"}
    [] domain = "network" -> {"Network I/O Read", "Network I/O Write"}
    [] domain = "disk" -> {"Disk I/O Read", "Disk I/O Write"}
HasRowsOf(domain) == \A l \in LabelsOf(domain) : LabelCell(l) \in TableCells
HasSomeRowOf(domain) == \E l \in LabelsOf(domain) : LabelCell(l) \in TableCells

\* C3 (as claimed): when the fetch of one domain fails, the other three
\* domains are still fetched and the report still holds the summary rows of
\* every domain whose fetch succeeded.
C3_FetchFailureIsolated ==
  (Done /\ \E d \in Domains : FetchFailed(d)) =>
    /\ \A d \in Domains : Issued(Get(d))
    /\ IsReport
    /\ \A d \in Domains : FetchSucceeded(d) => HasRowsOf(d)

\* The sections a report must hold, given the charts that came back and the
\* duration: nothing that is due is missing.
Complete ==
  /\ \A c \in ChartSet : graphs[c] # "unset"
  /\ ChartOk("cpuLoad") => Has(CPU_HEADER)
  /\ ChartOk("memoryUsage") => Has(MEMORY_HEADER)
  /\ (ChartOk("networkIORead") /\ ChartOk("networkIOWrite")) => Has(NETWORK_ROW)
  /\ (ChartOk("diskIORead") /\ ChartOk("diskIOWrite")) => Has(DISK_ROW)
  /\ DurationKnown(variant, validJob) =>
       Has(PERF_HEADER) /\ \A d \in Domains : HasRowsOf(d)

\* C4: report() returns null or a string, never anything else; it returns
\* null whenever a step raised, and a string it returns for a resolved
\* window is the complete document.
C4_NullOrComplete ==
  Done =>
    /\ result.kind \in {"null", "string"}
    /\ (\E d \in Domains : FetchFailed(d)) => result = Null
    /\ (IsReport /\ validJob # NoValidJob) => AllFetched /\ Complete

\* C4 witness: the network fetch fails after CPU and memory were
\* aggregated, and report() returns null.
C4_Witness ==
  /\ Done
  /\ FetchSucceeded("cpu") /\ FetchSucceeded("memory")
  /\ FetchFailed("network")
  /\ result = Null

\* C5: a failed chart request yields an absent chart and nothing more: with
\* the four fetches done, every chart whose series is non-empty is still
\* requested, and report() returns a report holding every section whose
\* charts succeeded.
C5_ChartFailureContained ==
  (Done /\ AllFetched) =>
    /\ IsReport
    /\ \A c \in ChartSet :
         /\ graphs[c] \in {"ok", "undefined", "null"}
         /\ Issued(Put(c)) <=> SeriesPresent(c, stats)
         /\ Issued(Put(c)) <=> (ChartOk(c) \/ ChartFailed(c))
    /\ ChartOk("cpuLoad") => Has(CPU_HEADER)
    /\ ChartOk("memoryUsage") => Has(MEMORY_HEADER)
    /\ (ChartOk("networkIORead") /\ ChartOk("networkIOWrite")) => Has(NETWORK_ROW)
    /\ (ChartOk("diskIORead") /\ ChartOk("diskIOWrite")) => Has(DISK_ROW)

\* C5 witness: the CPU chart (stacked area) and the network-read chart
\* (line) fail, the charts after them are requested and succeed, and the
\* report holds the Memory section and the Disk I/O row.
C5_Witness ==
  /\ Done /\ IsReport
  /\ ChartFailed("cpuLoad") /\ ChartFailed("networkIORead")
  /\ ChartOk("memoryUsage") /\ ChartOk("networkIOWrite")
  /\ ChartOk("diskIORead") /\ ChartOk("diskIOWrite")
  /\ Has(MEMORY_HEADER) /\ Has(DISK_ROW)

\* A domain whose fetch succeeded and left no sample in the window.
NoSampleInWindow(domain) == FetchSucceeded(domain) /\ stats[domain].seriesA = <<>>
DivisionByZeroText == {Fixed("NaN", 0), Fixed("Infinity", 0)}
ShowsDivisionByZero == \E cell \in TableCells : cell.a \in DivisionByZeroText \/ cell.b \in DivisionByZeroText

\* C6 (as claimed): a domain with no in-window sample has no section and no
\* row in the report, and the report shows no NaN or Infinity.
C6_EmptyDomainOmitted ==
  (Done /\ IsReport) =>
    \A d \in Domains :
      NoSampleInWindow(d) => ~HasSomeRowOf(d) /\ ~ShowsDivisionByZero

\* C7: the IO header is there iff both network charts or both disk charts
\* succeeded; the Network I/O row iff both network charts succeeded; the
\* Disk I/O row iff both disk charts succeeded.
C7_IOSection ==
  (Done /\ IsReport /\ validJob # NoValidJob) =>
    /\ Has(IO_HEADER) <=>
         \/ ChartOk("networkIORead") /\ ChartOk("networkIOWrite")
         \/ ChartOk("diskIORead") /\ ChartOk("diskIOWrite")
    /\ Has(NETWORK_ROW) <=> (ChartOk("networkIORead") /\ ChartOk("networkIOWrite"))
    /\ Has(DISK_ROW) <=> (ChartOk("diskIORead") /\ ChartOk("diskIOWrite"))

\* C7 witness: a network chart failed and both disk charts succeeded: the
\* header and the Disk I/O row are there, the Network I/O row is not.
C7_Witness ==
  /\ Done /\ IsReport
  /\ ChartFailed("networkIOWrite") /\ ChartOk("networkIORead")
  /\ ChartOk("diskIORead") /\ ChartOk("diskIOWrite")
  /\ Has(IO_HEADER) /\ Has(DISK_ROW) /\ ~Has(NETWORK_ROW)

\* C8: the CPU section is there iff the CPU chart request returned a
\* result, the Memory section iff the memory chart request did.
C8_CPUAndMemorySections ==
  (Done /\ IsReport /\ validJob # NoValidJob) =>
    /\ Has(CPU_HEADER) <=> ChartOk("cpuLoad")
    /\ Has(MEMORY_HEADER) <=> ChartOk("memoryUsage")

\* C8 witness: the CPU chart came back and the memory chart failed, with
\* all IO charts there: the report has the CPU section and no Memory section.
C8_Witness ==
  /\ Done /\ IsReport
  /\ ChartOk("cpuLoad") /\ ChartFailed("memoryUsage")
  /\ ChartOk("networkIORead") /\ ChartOk("networkIOWrite")
  /\ Has(CPU_HEADER) /\ ~Has(MEMORY_HEADER) /\ Has(IO_HEADER)

\* Where a line with the given text stands in the report (0: nowhere).
IndexOf(text) ==
  IF Has(text)
  THEN CHOOSE i \in 1..Len(result.items) :
         /\ result.items[i].text = text
         /\ \A j \in 1..(i - 1) : result.items[j].text # text
  ELSE 0
SectionOrder == <<CPU_HEADER, MEMORY_HEADER, IO_HEADER, NETWORK_ROW, DISK_ROW, PERF_HEADER>>

\* C9: the sections that are present stand in the order CPU, Memory, IO
\* header, Network I/O row, Disk I/O row, Performance Statistics.
C9_SectionOrder ==
  (Done /\ IsReport) =>
    \A a, b \in 1..Len(SectionOrder) :
      (a < b /\ Has(SectionOrder[a]) /\ Has(SectionOrder[b]))
        => IndexOf(SectionOrder[a]) < IndexOf(SectionOrder[b])

\* C9 witness: all six sections are present.
C9_Witness ==
  /\ Done
  /\ \A a \in 1..Len(SectionOrder) : Has(SectionOrder[a])

\* The window cannot be resolved: the job has no step named 'Run test' with
\* both timestamps, or the trace has no 'hyperfine' command.
Unresolvable ==
  IF variant = "step"
  THEN /\ ~source.isNull
       /\ "steps" \in DOMAIN source =>
            \A i \in 1..Len(source.steps) :
              ~(/\ source.steps[i].name = "Run test"
                /\ "started_at" \in DOMAIN source.steps[i]
                /\ "completed_at" \in DOMAIN source.steps[i])
  ELSE /\ ~source.threw
       /\ \A i \in 1..Len(source.commands) : source.commands[i].name # "hyperfine"

\* C10: when the window cannot be resolved report() returns the empty
\* string (not null), which holds no Performance Statistics section.
C10_UnresolvedWindowEmptyReport ==
  (Done /\ Unresolvable) =>
    /\ result = Str(<<>>)
    /\ ~Has(PERF_HEADER)
    /\ requests = <<>>

\* C10 witness: the only 'Run test' step has no completed_at, and report()
\* has returned ''.
C10_Witness ==
  /\ Done /\ variant = "step" /\ Unresolvable
  /\ "steps" \in DOMAIN source /\ Len(source.steps) = 1
  /\ source.steps[1].name = "Run test"
  /\ result = Str(<<>>)

---------------------------------------------------------------------------
(* Properties of the summaries (one aggregator run)                        *)

Aggregated == pc = "aggregated"

\* The summary rows of the run, each <<label, max, avg>>; part_000 keeps
\* their cells in one flat array.
SummaryRows ==
  IF variant = "step" THEN aggOut.tableContent
  ELSE [k \in 1..(Len(aggOut.tableContent) \div 3) |->
          <<aggOut.tableContent[3 * k - 2], aggOut.tableContent[3 * k - 1],
            aggOut.tableContent[3 * k]>>]
MaxCell(k) == SummaryRows[k][2]
AvgCell(k) == SummaryRows[k][3]

RECURSIVE SumFloored(_, _)
SumFloored(samples, f) ==
  IF samples = <<>> THEN 0
  ELSE Floored(Head(samples), f) + SumFloored(Tail(samples), f)

Abs(x) == IF x < 0 THEN -x ELSE x
\* text is sum / count to two decimals: the nearest hundredth, or NaN for 0/0.
IsQuotientText(text, sum, count) ==
  IF count = 0 THEN text = Fixed("NaN", 0)
  ELSE text.kind = "num" /\ 2 * Abs(100 * sum - text.cents * count) <= count

AvgOverWindow(k) ==
  IsQuotientText(AvgCell(k).a, SumFloored(InWindowData, FieldsOf(aggIn.domain)[k]),
                 Len(InWindowData))

\* C11 (as claimed): in every domain the Avg value of each row is the sum of
\* the floored in-window values over the number of in-window samples.
C11_AvgEveryDomain ==
  (Aggregated /\ Len(InWindowData) > 0) =>
    \A k \in 1..Len(SummaryRows) : AvgOverWindow(k)

\* C11 (amended): the CPU rows and the memory row report that quotient (NaN
\* when no sample is in the window); the network and disk rows report '-'.
\* On the CPU samples (0,10,5), (1000,20,10), (2000,30,5) and the window
\* [0, 2000]: max user 30.00, avg user 20.00, max sys 10.00, avg sys 6.67.
C11_AvgOverWindowSamples ==
  Aggregated =>
    /\ \A k \in 1..Len(SummaryRows) :
         IF aggIn.domain \in {"cpu", "memory"} THEN AvgOverWindow(k)
         ELSE AvgCell(k) = DashCell
    /\ (aggIn = CPUScenario /\ WindowStart = 0 /\ WindowEnd = 2000) =>
         /\ MaxCell(1) = PctCell(Fixed("num", 3000))
         /\ AvgCell(1) = PctCell(Fixed("num", 2000))
         /\ MaxCell(2) = PctCell(Fixed("num", 1000))
         /\ AvgCell(2) = PctCell(Fixed("num", 667))

\* C11 witness: the three CPU samples in the window [0, 2000] with avg sys
\* 6.67, and the same samples in [1000, 2000], where two of three count.
C11_Witness ==
  /\ Aggregated /\ aggIn = CPUScenario
  /\ \/ WindowStart = 0 /\ WindowEnd = 2000 /\ AvgCell(2) = PctCell(Fixed("num", 667))
     \/ WindowStart = 1000 /\ WindowEnd = 2000 /\ Len(InWindowData) = 2
          /\ AvgCell(1) = PctCell(Fixed("num", 2500))

RECURSIVE MaxFloored(_, _)
MaxFloored(samples, f) ==
  IF samples = <<>> THEN 0
  ELSE LET m == MaxFloored(Tail(samples), f)
           y == Floored(Head(samples), f)
       IN  IF y > m THEN y ELSE m

\* C14: in every domain the Max value of each row is the largest floored
\* value of the in-window samples (negative or absent counted as 0), and 0
\* when no sample is in the window.
C14_MaxOfFloored ==
  Aggregated =>
    \A k \in 1..Len(SummaryRows) :
      MaxCell(k).a =
        ToFixed(Num(MaxFloored(InWindowData, FieldsOf(aggIn.domain)[k])))

\* text is num / den to two decimals, as JavaScript prints it: NaN for 0/0,
\* Infinity for x/0, the nearest hundredth otherwise.
IsRatioText(text, num, den) ==
  IF den = 0 THEN text = Fixed(IF num = 0 THEN "NaN" ELSE "Infinity", 0)
  ELSE text.kind = "num" /\ 2 * Abs(100 * num - text.cents * den) <= den

\* The largest totalMemoryMb among the first n samples (0 before any), and
\* the sum of that running maximum over the samples.
RECURSIVE MaxTotal(_, _)
MaxTotal(samples, n) ==
  IF n = 0 THEN 0
  ELSE LET m == MaxTotal(samples, n - 1)
       IN  IF samples[n].totalMemoryMb > m THEN samples[n].totalMemoryMb ELSE m
RECURSIVE SumRunningMaxTotal(_, _)
SumRunningMaxTotal(samples, n) ==
  IF n = 0 THEN 0
  ELSE SumRunningMaxTotal(samples, n - 1) + MaxTotal(samples, n)
ReportsTotal(samples) ==
  \A i \in 1..Len(samples) : "totalMemoryMb" \in DOMAIN samples[i]

\* C15: when every in-window memory sample reports totalMemoryMb, the Avg
\* ratio is sum(floored activeMemoryMb) over the sum of the running maximum
\* of totalMemoryMb, and the Max ratio is max(floored activeMemoryMb) over
\* max(totalMemoryMb), both plain ratios; for 100, 200, 300 MB active of
\* 1000 MB the Max cell reads 300.00M(0.30%).
C15_MemoryRatios ==
  (Aggregated /\ aggIn.domain = "memory" /\ ReportsTotal(InWindowData)) =>
    LET n == Len(InWindowData)
    IN  /\ AvgCell(1).unit = "M(%)" /\ MaxCell(1).unit = "M(%)"
        /\ IsRatioText(AvgCell(1).b, SumFloored(InWindowData, "activeMemoryMb"),
                       SumRunningMaxTotal(InWindowData, n))
        /\ IsRatioText(MaxCell(1).b, MaxFloored(InWindowData, "activeMemoryMb"),
                       MaxTotal(InWindowData, n))
        /\ (aggIn = MemoryScenario /\ n = 3) =>
             MaxCell(1) = MbPctCell(Fixed("num", 30000), Fixed("num", 30))

\* C15 witness: the three samples of the scenario are in the window and the
\* Max cell reads 300.00M(0.30%), the Avg cell 200.00M(0.20%).
C15_Witness ==
  /\ Aggregated /\ aggIn = MemoryScenario /\ Len(InWindowData) = 3
  /\ MaxCell(1) = MbPctCell(Fixed("num", 30000), Fixed("num", 30))
  /\ AvgCell(1) = MbPctCell(Fixed("num", 20000), Fixed("num", 20))

NonDecreasing(series) ==
  \A i, j \in 1..Len(series) : i < j => series[i].x <= series[j].x
SameTimes(seriesA, seriesB) ==
  /\ Len(seriesA) = Len(seriesB)
  /\ \A i \in 1..Len(seriesA) : seriesA[i].x = seriesB[i].x

\* C16: the points of every series are in non-decreasing time order and
\* are the in-window samples in their arrival order (the i-th point is the
\* i-th in-window sample); the two series of CPU, of network and of disk
\* have the same length and the same x at every index.
C16_SeriesInArrivalOrder ==
  Aggregated =>
    /\ NonDecreasing(aggOut.seriesA) /\ NonDecreasing(aggOut.seriesB)
    /\ TimesOf(aggOut.seriesA) = SampleTimes(InWindowData)
    /\ PlottedAs(aggOut.seriesA, FieldsOf(aggIn.domain)[1])
    /\ TwoSeries =>
         /\ SameTimes(aggOut.seriesA, aggOut.seriesB)
         /\ PlottedAs(aggOut.seriesB, FieldsOf(aggIn.domain)[2])

\* C16 witness: two in-window network samples of different times and
\* different rxMb gave two read points and two write points, oldest first.
C16_Witness ==
  /\ Aggregated /\ aggIn.domain = "network" /\ Len(aggIn.data) = 2
  /\ Len(aggOut.seriesA) = 2 /\ Len(aggOut.seriesB) = 2
  /\ aggOut.seriesA[1].x < aggOut.seriesA[2].x
  /\ aggOut.seriesA[1].y > aggOut.seriesA[2].y

---------------------------------------------------------------------------
(* Properties of a whole report() call, continued                          *)

DomainOrder == <<"cpu", "memory", "network", "disk">>
\* The place (1..4) of the domain a row label belongs to; 0 for no label.
PlaceOfLabel(cell) ==
  IF \E n \in 1..4 : cell.label \in LabelsOf(DomainOrder[n])
  THEN CHOOSE n \in 1..4 : cell.label \in LabelsOf(DomainOrder[n])
  ELSE 0
IsValueCell(cell) == cell.label = "" \/ cell = DashCell
\* A row of exactly three cells: a domain's label, its max, its avg.
IsSummaryRow(row) ==
  /\ Len(row) = 3
  /\ PlaceOfLabel(row[1]) > 0
  /\ IsValueCell(row[2]) /\ IsValueCell(row[3])

\* C12 (as claimed): when the duration is known the table starts with the
\* row Domain, MaxValue, AvgValue; every row after it has exactly the three
\* cells label, max, avg; every aggregated domain has its rows, and the rows
\* stand in the order CPU, Memory, Network, Disk.
C12_StatisticsTable ==
  (Done /\ IsReport /\ validJob # NoValidJob /\ DurationKnown(variant, validJob)) =>
    /\ Has(TABLE)
    /\ TableRows[1] = <<LabelCell("Domain"), LabelCell("MaxValue"), LabelCell("AvgValue")>>
    /\ \A i \in 2..Len(TableRows) : IsSummaryRow(TableRows[i])
    /\ \A i, j \in 2..Len(TableRows) :
         i < j => PlaceOfLabel(TableRows[i][1]) <= PlaceOfLabel(TableRows[j][1])
    /\ \A d \in Domains : HasRowsOf(d)

---------------------------------------------------------------------------
(* Properties of repeated aggregator runs                                  *)

---------------------------------------------------------------------------
(* Properties of the window of a named step                                *)

StepResolved == variant = "step" /\ validJob # NoValidJob
\* The upper bound the claim gives: start plus the whole seconds reported.
StartPlusDuration == WindowStart + 1000 * Duration(variant, validJob)
NoPointAfter(t) ==
  \A d \in Domains :
    /\ \A i \in 1..Len(stats[d].seriesA) : stats[d].seriesA[i].x <= t
    /\ \A i \in 1..Len(stats[d].seriesB) : stats[d].seriesB[i].x <= t

\* C17 (as claimed): in named-step mode the upper bound of the filter is
\* startTime + 1000 * round((completed_at - started_at) / 1000).
C17_EndIsStartPlusDuration ==
  StepResolved => WindowEnd = StartPlusDuration

\* C17 (amended): in named-step mode the upper bound of the filter is the
\* completion timestamp itself, so no point is later than completed_at; it
\* is start + 1000 * duration exactly when the two timestamps are whole
\* seconds apart and is within 500 ms of it otherwise.
C17_EndIsCompletion ==
  StepResolved =>
    /\ NoPointAfter(GetTime(validJob.completed_at))
    /\ WindowEnd = GetTime(validJob.completed_at)
    /\ 2 * Abs(WindowEnd - StartPlusDuration) <= 1000
    /\ (WindowEnd = StartPlusDuration) <=> ((WindowEnd - WindowStart) % 1000 = 0)

\* C17 witness: a step from 0.000 s to 0.600 s, reported as 1 s; the CPU
\* fetch gave a point at 0 ms and none at 1000 ms.
C17_Witness ==
  /\ StepResolved /\ Done /\ IsReport
  /\ WindowStart = 0 /\ WindowEnd = 600 /\ StartPlusDuration = 1000
  /\ Len(stats["cpu"].seriesA) = 1
  /\ stats["cpu"].seriesA[1].x = 0

---------------------------------------------------------------------------
(* Properties of the requests of one report() call                         *)

Count(request) == Cardinality({i \in 1..Len(requests) : requests[i] = request})
ChartPlace(chart) == CHOOSE n \in 1..Len(Charts) : Charts[n] = chart
IsGet(request) == request.method = "GET"
IsPut(request) == request.method = "PUT"

\* C18: in one report() call each of the four endpoints is requested at
\* most once and each of the six charts is requested at most once, also
\* after the request has failed.
C18_AtMostOnce ==
  /\ \A d \in Domains : Count(Get(d)) <= 1
  /\ \A c \in ChartSet : Count(Put(c)) <= 1
  /\ \A d \in Domains : FetchFailed(d) => Count(Get(d)) = 1
  /\ \A c \in ChartSet : ChartFailed(c) => Count(Put(c)) = 1

\* C18 witness: the call has returned a report after the CPU chart request
\* and the disk-write chart request failed; each was issued once, after the
\* four fetches.
C18_Witness ==
  /\ Done /\ IsReport
  /\ ChartFailed("cpuLoad") /\ ChartFailed("diskIOWrite")
  /\ Count(Put("cpuLoad")) = 1 /\ Count(Put("diskIOWrite")) = 1
  /\ \A d \in Domains : Count(Get(d)) = 1

\* C19: the fetches are issued in the order CPU, Memory, Network, Disk, each
\* after the previous one succeeded; a chart request is issued only after
\* all four fetches succeeded and only for a non-empty series (CPU: both
\* non-empty), in the order of the six charts; after a failed fetch nothing
\* more is issued.
C19_SequentialRequests ==
  /\ \A i \in 1..Len(requests) :
       /\ IsGet(requests[i]) =>
            /\ i <= Len(DomainOrder) /\ requests[i] = Get(DomainOrder[i])
            /\ \A n \in 1..(i - 1) : FetchSucceeded(DomainOrder[n])
       /\ IsPut(requests[i]) =>
            /\ i > Len(DomainOrder) /\ AllFetched
            /\ SeriesPresent(requests[i].target, stats)
       /\ \A j \in 1..Len(requests) :
            (i < j /\ IsPut(requests[i]) /\ IsPut(requests[j])) =>
              ChartPlace(requests[i].target) < ChartPlace(requests[j].target)
  /\ \A d \in Domains :
       FetchFailed(d) => Done /\ requests[Len(requests)] = Get(d)

\* C19 witness: a call that issued all ten requests, the four fetches, then
\* the six charts from CPU to disk write.
C19_Witness ==
  /\ Done /\ IsReport
  /\ requests = <<Get("cpu"), Get("memory"), Get("network"), Get("disk"),
                  Put("cpuLoad"), Put("memoryUsage"), Put("networkIORead"),
                  Put("networkIOWrite"), Put("diskIORead"), Put("diskIOWrite")>>

=============================================================================
